---- MODULE Spec2Model ----
(***************************************************************************)
(* Model of chrome_charts: the timestamp codec (core/helper.py), the       *)
(* History_Handler context manager and chart pipeline (core/app.py) and    *)
(* the controller script (chrome_charts.py).                               *)
(*                                                                         *)
(* Python strings are sequences of one-character strings, so formatting    *)
(* and parsing are computed character by character.  Integers that exceed  *)
(* 32 bits in the program (webkit timestamps) are kept as decimal digit    *)
(* strings and divided/multiplied digit-wise.                              *)
(***************************************************************************)
EXTENDS Integers, Sequences, FiniteSets, TLC

VARIABLES
    pc,             \* position of the controller script / of the codec run
    jinja2,         \* app.py:12-15, TRUE when the import succeeded
    dbExists,       \* os.path.isfile(config.DB_PATH)
    localExists,    \* os.path.isfile(config.DB_PATH_LOCAL)
    localMtime,     \* os.path.getmtime(config.DB_PATH_LOCAL)
    now,            \* datetime.now().timestamp()
    copy_path,      \* which branch _copy_history_db took
    store,          \* urls of the visits rows, ordered by visit_time
    dbh,            \* self.dbh: "None", "open" or "closed"
    since,          \* self.since
    top,            \* self.top
    req_top,        \* argument top of the last create_charts call
    req_cli,        \* mode the last create_charts call rendered in
    calls,          \* number of create_charts calls made
    history,        \* result of the last _get_history
    stripped_urls,  \* app.py:161
    skipped_urls,   \* app.py:162
    log,            \* messages logged by _charts_from_history
    counted,        \* app.py:188, Counter(...).most_common(self.top)
    charts,         \* app.py:190, the returned list
    output,         \* lines printed by create_charts
    html,           \* what write_html rendered
    raised,         \* exception that left the last operation
    date_string,    \* codec: argument of date_to_webkit
    webkit,         \* codec: result of date_to_webkit
    decoded         \* codec: result of date_from_webkit

vars == <<pc, jinja2, dbExists, localExists, localMtime, now, copy_path,
          store, dbh, since, top, req_top, req_cli, calls, history,
          stripped_urls, skipped_urls, log, counted, charts, output, html,
          raised, date_string, webkit, decoded>>

----------------------------------------------------------------------------
(* Characters and decimal strings *)

\* Python None for a string-valued field
NoneStr == <<"None">>

DigitChars == <<"0", "1", "2", "3", "4", "5", "6", "7", "8", "9">>

Digits == {DigitChars[i] : i \in 1..10}

IsDigit(c) == c \in Digits

DigitValue == [c \in Digits |-> (CHOOSE i \in 1..10 : DigitChars[i] = c) - 1]

DigitVal(c) == DigitValue[c]

RECURSIVE IntToStr(_)
\* str(n) / format(n, "d") for n >= 0
IntToStr(n) ==
    IF n < 10 THEN <<DigitChars[n + 1]>>
    ELSE IntToStr(n \div 10) \o <<DigitChars[(n % 10) + 1]>>

RECURSIVE StrToInt(_)
\* int(s) for a digit string s
StrToInt(s) ==
    IF s = << >> THEN 0
    ELSE 10 * StrToInt(SubSeq(s, 1, Len(s) - 1)) + DigitVal(s[Len(s)])

AllDigits(s) == \A i \in 1..Len(s) : IsDigit(s[i])

RECURSIVE Zeros(_)
Zeros(k) == IF k <= 0 THEN << >> ELSE <<"0">> \o Zeros(k - 1)

\* format(n, "0{w}d"): zero padding on the left
ZeroPadLeft(n, w) == LET s == IntToStr(n) IN Zeros(w - Len(s)) \o s

RECURSIVE StripZeros(_)
StripZeros(s) ==
    IF Len(s) > 1 /\ s[1] = "0" THEN StripZeros(Tail(s)) ELSE s

RECURSIVE LexGE(_, _)
LexGE(a, b) ==
    IF a = << >> THEN TRUE
    ELSE IF DigitVal(a[1]) # DigitVal(b[1]) THEN DigitVal(a[1]) > DigitVal(b[1])
    ELSE LexGE(Tail(a), Tail(b))

\* a >= b for non-negative integers written as digit strings
NumGE(a, b) ==
    LET x == StripZeros(a)
        y == StripZeros(b)
    IN IF Len(x) # Len(y) THEN Len(x) > Len(y) ELSE LexGE(x, y)

----------------------------------------------------------------------------
(* Calendar arithmetic of datetime *)

IsLeap(y) == (y % 4 = 0) /\ ((y % 100 # 0) \/ (y % 400 = 0))

DAYS_IN_MONTH == <<31, 28, 31, 30, 31, 30, 31, 31, 30, 31, 30, 31>>

DaysInMonth(y, m) == IF m = 2 /\ IsLeap(y) THEN 29 ELSE DAYS_IN_MONTH[m]

RECURSIVE DaysBeforeMonth(_, _)
DaysBeforeMonth(y, m) ==
    IF m = 1 THEN 0 ELSE DaysBeforeMonth(y, m - 1) + DaysInMonth(y, m - 1)

DaysBeforeYear(y) ==
    LET y1 == y - 1
    IN y1 * 365 + (y1 \div 4) - (y1 \div 100) + (y1 \div 400)

\* datetime.toordinal(): 0001-01-01 is day 1
Ymd2Ord(y, m, d) == DaysBeforeYear(y) + DaysBeforeMonth(y, m) + d

\* datetime.fromordinal(): the 400/100/4/1-year cycle decomposition
Ord2Ymd(ordinal) ==
    LET n0   == ordinal - 1
        n400 == n0 \div 146097
        r400 == n0 % 146097
        n100 == r400 \div 36524
        r100 == r400 % 36524
        n4   == r100 \div 1461
        r4   == r100 % 1461
        n1   == r4 \div 365
        n    == r4 % 365
        year == n400 * 400 + 1 + n100 * 100 + n4 * 4 + n1
        m0   == (n + 50) \div 32
        m    == IF DaysBeforeMonth(year, m0) > n THEN m0 - 1 ELSE m0
    IN IF n1 = 4 \/ n100 = 4
       THEN [year |-> year - 1, month |-> 12, day |-> 31]
       ELSE [year |-> year, month |-> m,
             day |-> n - DaysBeforeMonth(year, m) + 1]

\* datetime.datetime(1601, 1, 1)
epoch_start == Ymd2Ord(1601, 1, 1)

MaxOrdinal == Ymd2Ord(9999, 12, 31)

\* strftime("%Y-%m-%d")
StrfYmd(dt) ==
    ZeroPadLeft(dt.year, 4) \o <<"-">> \o ZeroPadLeft(dt.month, 2)
        \o <<"-">> \o ZeroPadLeft(dt.day, 2)

\* the date strings strptime(s, "%Y-%m-%d") accepts among zero-padded ones;
\* anything else is a ValueError
IsYmd(s) ==
    /\ Len(s) = 10
    /\ AllDigits(SubSeq(s, 1, 4)) /\ s[5] = "-"
    /\ AllDigits(SubSeq(s, 6, 7)) /\ s[8] = "-"
    /\ AllDigits(SubSeq(s, 9, 10))
    /\ StrToInt(SubSeq(s, 1, 4)) \in 1..9999
    /\ StrToInt(SubSeq(s, 6, 7)) \in 1..12
    /\ StrToInt(SubSeq(s, 9, 10)) \in
           1..DaysInMonth(StrToInt(SubSeq(s, 1, 4)), StrToInt(SubSeq(s, 6, 7)))

\* strptime(s, "%Y-%m-%d") for s with IsYmd(s)
StrpYmd(s) ==
    [year  |-> StrToInt(SubSeq(s, 1, 4)),
     month |-> StrToInt(SubSeq(s, 6, 7)),
     day   |-> StrToInt(SubSeq(s, 9, 10))]

MONTH_ABBR == <<<<"J","a","n">>, <<"F","e","b">>, <<"M","a","r">>,
                <<"A","p","r">>, <<"M","a","y">>, <<"J","u","n">>,
                <<"J","u","l">>, <<"A","u","g">>, <<"S","e","p">>,
                <<"O","c","t">>, <<"N","o","v">>, <<"D","e","c">>>>

\* strftime("%d %b, %Y")
StrfDisplay(dt) ==
    ZeroPadLeft(dt.day, 2) \o <<" ">> \o MONTH_ABBR[dt.month]
        \o <<",", " ">> \o ZeroPadLeft(dt.year, 4)

----------------------------------------------------------------------------
(* core/helper.py: the timestamp codec *)

seconds_in_day == 60 * 60 * 24

\* decimal digits of days * seconds_in_day, computed in two limbs of 10^3
\* because the product exceeds 32 bits
SecondsDigits(days) ==
    LET per100 == seconds_in_day \div 100
        lo == (days % 1000) * per100
        hi == (days \div 1000) * per100 + (lo \div 1000)
        digits == IF hi = 0 THEN IntToStr(lo % 1000)
                  ELSE IntToStr(hi) \o ZeroPadLeft(lo % 1000, 3)
    IN IF days = 0 THEN <<"0">> ELSE digits \o <<"0", "0">>

\* '{:<017d}'.format(n): left-aligned in 17 columns, filled with "0"
FormatLeft017(digits) == digits \o Zeros(17 - Len(digits))

\* date_to_webkit(date_string), for a string strptime accepts
date_to_webkit(s) ==
    LET date_ == StrpYmd(s)
        days  == Ymd2Ord(date_.year, date_.month, date_.day) - epoch_start
    IN FormatLeft017(SecondsDigits(days))

\* timedelta(microseconds=int(timestamp)).days for a timestamp of at most
\* 17 digits: floor(n / 86400000000) = floor(floor(n / 10^8) / 864)
DeltaDays(timestamp) ==
    LET t == StripZeros(timestamp)
    IN IF Len(t) <= 8 THEN 0
       ELSE StrToInt(SubSeq(t, 1, Len(t) - 8)) \div (seconds_in_day \div 100)

\* date_from_webkit(timestamp); OverflowError past year 9999
date_from_webkit(timestamp) ==
    LET ord == epoch_start + DeltaDays(timestamp)
    IN IF ord > MaxOrdinal THEN <<"OverflowError">>
       ELSE StrfYmd(Ord2Ymd(ord))

----------------------------------------------------------------------------
(* core/config.py *)

DEFAULT_CHART == 10
MAX_CHART == 100
MAX_URL_LENGTH == 60

----------------------------------------------------------------------------
(* app.py:160-190: URL normalisation and the chart builder *)

LowerAlpha == <<"a","b","c","d","e","f","g","h","i","j","k","l","m",
                "n","o","p","q","r","s","t","u","v","w","x","y","z">>

UpperAlpha == <<"A","B","C","D","E","F","G","H","I","J","K","L","M",
                "N","O","P","Q","R","S","T","U","V","W","X","Y","Z">>

\* case folding of re.IGNORECASE on ASCII
CaseFold ==
    [c \in {UpperAlpha[i] : i \in 1..26} |->
        LowerAlpha[CHOOSE i \in 1..26 : UpperAlpha[i] = c]]

Lower(c) == IF c \in DOMAIN CaseFold THEN CaseFold[c] ELSE c

Letters == {LowerAlpha[i] : i \in 1..26}

IsLetter(c) == Lower(c) \in Letters

\* the character class [a-z 0-9 \.\-\:] under IGNORECASE; the two blanks
\* written inside the brackets are members of the class
InHostClass(c) ==
    IsLetter(c) \/ IsDigit(c) \/ c \in {" ", ".", "-", ":"}

RECURSIVE SkipS(_, _)
\* s*: index of the first character at or after i that is not an "s"
SkipS(url, i) ==
    IF i <= Len(url) /\ Lower(url[i]) = "s" THEN SkipS(url, i + 1) ELSE i

RECURSIVE SkipHost(_, _)
\* [...]*: index of the first character at or after i outside the class
SkipHost(url, i) ==
    IF i <= Len(url) /\ InHostClass(url[i]) THEN SkipHost(url, i + 1) ELSE i

\* re.search(r"^https*:\/\/[a-z 0-9 \.\-\:]*\/", url, re.IGNORECASE): the
\* matched text, or NoneStr when there is no match.  Neither star can give
\* characters back to what follows it (":" is not "s", "/" is not in the
\* class), so the greedy match is the only candidate.
RegexSearch(url) ==
    LET k == SkipS(url, 5)
        j == SkipHost(url, k + 3)
    IN IF /\ Len(url) >= 4
          /\ <<Lower(url[1]), Lower(url[2]), Lower(url[3]), Lower(url[4])>>
                 = <<"h", "t", "t", "p">>
          /\ Len(url) >= k + 2
          /\ SubSeq(url, k, k + 2) = <<":", "/", "/">>
          /\ j <= Len(url)
          /\ url[j] = "/"
       THEN SubSeq(url, 1, j)
       ELSE NoneStr

\* app.py:171-178, the debug message of a skipped url
SkipMessage(url) ==
    IF Len(url) > MAX_URL_LENGTH
    THEN [msg |-> "Skipping", url |-> SubSeq(url, 1, MAX_URL_LENGTH),
          dots |-> TRUE, n |-> 0]
    ELSE [msg |-> "Skipping", url |-> url, dots |-> FALSE, n |-> 0]

\* the skip branch falls through to the append instead of continuing
LoopBodyNoContinue(acc, url) ==
    LET url_stripped == RegexSearch(url)
    IN IF url_stripped = NoneStr
       THEN [stripped |-> Append(acc.stripped, SkipMessage(url).url),
             skipped  |-> acc.skipped + 1,
             log      |-> Append(acc.log, SkipMessage(url))]
       ELSE [stripped |-> Append(acc.stripped, url_stripped),
             skipped  |-> acc.skipped,
             log      |-> acc.log]

\* app.py:166-182, one iteration of the loop over history
LoopBody(acc, url) ==
    LET url_stripped == RegexSearch(url)
    IN IF url_stripped = NoneStr
       THEN [stripped |-> acc.stripped,
             skipped  |-> acc.skipped + 1,
             log      |-> Append(acc.log, SkipMessage(url))]
       ELSE [stripped |-> Append(acc.stripped, url_stripped),
             skipped  |-> acc.skipped,
             log      |-> acc.log]

RECURSIVE StripLoop(_, _)
\* app.py:161-185
StripLoop(hist, acc) ==
    IF hist = << >>
    THEN IF acc.skipped # 0
         THEN [acc EXCEPT !.log = Append(@, [msg |-> "Skipped", url |-> << >>,
                                             dots |-> FALSE,
                                             n |-> acc.skipped])]
         ELSE acc
    ELSE StripLoop(Tail(hist), LoopBody(acc, Head(hist)))

RECURSIVE CounterAdd(_, _)
\* Counter: increment the entry of key, or append a new entry at the end
CounterAdd(items, key) ==
    IF items = << >> THEN << <<key, 1>> >>
    ELSE IF Head(items)[1] = key
         THEN << <<key, Head(items)[2] + 1>> >> \o Tail(items)
         ELSE <<Head(items)>> \o CounterAdd(Tail(items), key)

RECURSIVE CounterItems(_)
\* Counter(stripped_urls).items(), in insertion order
CounterItems(urls) ==
    IF urls = << >> THEN << >>
    ELSE CounterAdd(CounterItems(SubSeq(urls, 1, Len(urls) - 1)),
                    urls[Len(urls)])

\* a tie is placed in front of the entries already sorted (last seen first)
GoesAfterTiesReversed(placed, item) == placed[2] > item[2]

\* sorted(..., key=count, reverse=True) is stable: an item goes after every
\* placed item whose count is at least its own
GoesAfter(placed, item) == placed[2] >= item[2]

RECURSIVE InsertDesc(_, _)
InsertDesc(sorted, item) ==
    IF sorted # << >> /\ GoesAfter(Head(sorted), item)
    THEN <<Head(sorted)>> \o InsertDesc(Tail(sorted), item)
    ELSE <<item>> \o sorted

RECURSIVE SortDesc(_)
SortDesc(items) ==
    IF items = << >> THEN << >>
    ELSE InsertDesc(SortDesc(SubSeq(items, 1, Len(items) - 1)),
                    items[Len(items)])

\* Counter.most_common(n) = heapq.nlargest(n, items, key=count); for n <= 0
\* nlargest returns the empty list
MostCommon(items, n) ==
    IF n <= 0 THEN << >>
    ELSE SubSeq(SortDesc(items), 1, IF n < Len(items) THEN n ELSE Len(items))

\* f"{visits:n}": below 1000 no locale inserts a grouping separator
FormatN(visits) == IntToStr(visits)

\* app.py:190
FormatCharts(cs) == [i \in 1..Len(cs) |-> <<cs[i][1], FormatN(cs[i][2])>>]

\* _charts_from_history(history) with self.top = n
ChartsFromHistory(hist, n) ==
    LET acc == StripLoop(hist, [stripped |-> << >>, skipped |-> 0,
                                log |-> << >>])
        cs  == MostCommon(CounterItems(acc.stripped), n)
    IN [stripped |-> acc.stripped, skipped |-> acc.skipped, log |-> acc.log,
        counted |-> cs, charts |-> FormatCharts(cs)]

----------------------------------------------------------------------------
(* State after construction *)

NoHtml == [written |-> FALSE, charts |-> << >>, top |-> 0, since |-> NoneStr]

\* History_Handler.__init__ and the values nothing has produced yet
HandlerConstructed ==
    /\ dbh = "None"
    /\ since = NoneStr
    /\ top = DEFAULT_CHART
    /\ req_top = 0
    /\ req_cli = FALSE
    /\ calls = 0
    /\ copy_path = "not_run"
    /\ history = << >>
    /\ stripped_urls = << >>
    /\ skipped_urls = 0
    /\ log = << >>
    /\ counted = << >>
    /\ charts = << >>
    /\ output = << >>
    /\ html = NoHtml
    /\ raised = "None"

CodecUnused ==
    /\ date_string = NoneStr
    /\ webkit = NoneStr
    /\ decoded = NoneStr

EnvUnused ==
    /\ jinja2 = TRUE
    /\ dbExists = TRUE
    /\ localExists = FALSE
    /\ localMtime = 0
    /\ now = 0
    /\ store = << >>

runVars == <<jinja2, dbExists, localExists, localMtime, now, copy_path,
             store, dbh, since, top, req_top, req_cli, calls, history,
             stripped_urls, skipped_urls, log, counted, charts, output,
             html, raised>>

----------------------------------------------------------------------------
(* The history store and its two queries *)

\* day of the first visit row, counted from the epoch
FirstVisitDay == Ymd2Ord(2020, 1, 1) - epoch_start

\* visits.visit_time of the i-th row in microseconds: row i is visited on
\* day FirstVisitDay + i - 1, i seconds after midnight
VisitTime(i) ==
    LET d == SecondsDigits(FirstVisitDay + i - 1)
    IN SubSeq(d, 1, Len(d) - 2) \o ZeroPadLeft(i, 2) \o Zeros(6)

\* urls.last_visit_time of the url of row i: the time of its last visit
LastVisitTime(rows, i) ==
    VisitTime(CHOOSE k \in 1..Len(rows) :
                 rows[k] = rows[i] /\ \A j \in (k + 1)..Len(rows) : rows[j] # rows[i])

\* app.py:130, the oldest visit_time > 0 decoded; rows is not empty
HistoryAge(rows) == date_from_webkit(VisitTime(1))

\* app.py:136-149, the urls whose last_visit_time >= cutoff, by visit_time
GetHistory(rows, cutoff) ==
    LET keep == {i \in 1..Len(rows) : NumGE(LastVisitTime(rows, i), cutoff)}
        F[i \in 0..Len(rows)] ==
            IF i = 0 THEN << >>
            ELSE IF i \in keep THEN Append(F[i - 1], rows[i]) ELSE F[i - 1]
    IN F[Len(rows)]

----------------------------------------------------------------------------
(* app.py:92-112, _copy_history_db *)

\* the local copy is refreshed although it is exactly one hour old
IsStaleInclusive(mtime, t) == mtime <= t - 60 * 60

\* app.py:104, mtime < datetime.now().timestamp() - 60*60
IsStale(mtime, t) == mtime < t - 60 * 60

\* branch _copy_history_db takes before any copy is attempted
CopyBranch ==
    IF ~dbExists THEN "missing"
    ELSE IF localExists /\ ~IsStale(localMtime, now) THEN "reused"
    ELSE "copy"

----------------------------------------------------------------------------
(* app.py:193-238, create_charts *)

\* the request is passed on without the upper limit
ClampTopUnlimited(arg, current) == IF arg # 0 THEN arg ELSE current

\* app.py:200-202
ClampTop(arg, current) ==
    IF arg # 0
    THEN IF arg <= MAX_CHART THEN arg ELSE MAX_CHART
    ELSE current

\* app.py:203-205
EffectiveCli(cli) == cli \/ ~jinja2

Line(kind, n, text, rank, padding, visits) ==
    [kind |-> kind, top |-> n, text |-> text, rank |-> rank,
     padding |-> padding, visits |-> visits]

Blank == Line("blank", 0, << >>, << >>, 0, << >>)

RECURSIVE MaxLen(_)
\* max([len(url) for url, visits in charts]) for a non-empty chart
MaxLen(cs) ==
    IF Len(cs) = 1 THEN Len(cs[1][1])
    ELSE LET m == MaxLen(Tail(cs))
         IN IF Len(cs[1][1]) > m THEN Len(cs[1][1]) ELSE m

\* app.py:219-235, the lines printed for a non-empty chart
CliLines(cs, n, cutoff) ==
    LET padding == MaxLen(cs) + 5
    IN <<Blank, Line("header", n, cutoff, << >>, 0, << >>),
         Line("columns", 0, << >>, << >>, padding, << >>)>>
       \o [i \in 1..Len(cs) |->
              Line("row", 0, cs[i][1], ZeroPadLeft(i, 2), padding, cs[i][2])]
       \o <<Blank>>
       \o (IF ~jinja2 THEN <<Line("no_jinja2", 0, << >>, << >>, 0, << >>)>>
           ELSE << >>)

----------------------------------------------------------------------------
(* The codec applied to calendar dates *)

\* years whose dates are encoded: the first days of the epoch, both sides
\* of the 10^10 s and 10^11 s boundaries, a present-day year, the last year
CodecYears == {1601, 1602, 1917, 1918, 2020, 4769, 4770, 9999}

CodecDates ==
    {StrfYmd([year |-> y, month |-> m, day |-> d]) :
        <<y, m, d>> \in {t \in CodecYears \X (1..12) \X (1..31) :
                            t[3] <= DaysInMonth(t[1], t[2])}}

InitCodec ==
    /\ pc = "codec_start"
    /\ date_string \in CodecDates
    /\ webkit = NoneStr
    /\ decoded = NoneStr
    /\ HandlerConstructed
    /\ EnvUnused

Encode ==
    /\ pc = "codec_start"
    /\ webkit' = date_to_webkit(date_string)
    /\ pc' = "encoded"
    /\ UNCHANGED <<date_string, decoded>>
    /\ UNCHANGED runVars

Decode ==
    /\ pc = "encoded"
    /\ decoded' = date_from_webkit(webkit)
    /\ pc' = "decoded"
    /\ UNCHANGED <<date_string, webkit>>
    /\ UNCHANGED runVars

NextCodec == Encode \/ Decode

SpecCodec == InitCodec /\ [][NextCodec]_vars

\* C1: for every calendar date d from 1601-01-01 to 9999-12-31,
\* date_from_webkit(date_to_webkit(d)) = d.
RoundTrip == pc = "decoded" => decoded = date_string

\* where the round trip does hold: the dates whose count of seconds since
\* the epoch has exactly 11 digits, so that the padding multiplies by 10^6
RoundTripElevenDigits ==
    (pc = "decoded" /\ webkit # NoneStr
        /\ Len(SecondsDigits(Ymd2Ord(StrpYmd(date_string).year,
                                      StrpYmd(date_string).month,
                                      StrpYmd(date_string).day)
                              - epoch_start)) = 11)
    => decoded = date_string

----------------------------------------------------------------------------
(* _charts_from_history applied to histories *)

\* longest history enumerated over CountUrls
MaxHistory == 6
\* self.top runs over 1..MaxTopN and the values below
MaxTopN == 3
\* characters added to a skipped url beyond MAX_URL_LENGTH
MaxOverlong == 2

http_ == <<"h", "t", "t", "p">>
sep_ == <<":", "/", "/">>

UrlA == http_ \o sep_ \o <<"a", "/">>
UrlB == http_ \o <<"s">> \o sep_ \o <<"b", ".", "c", "/", "p">>
UrlC == http_ \o sep_ \o <<"c", ":", "8", "/", "x", "/", "y">>
UrlBad == <<"c", "h", "r", "o", "m", "e">> \o sep_ \o <<"x">>

RECURSIVE Repeat(_, _)
Repeat(c, k) == IF k <= 0 THEN << >> ELSE <<c>> \o Repeat(c, k - 1)

\* urls that fail normalisation and are about MAX_URL_LENGTH long
LongUrls ==
    {<<"f", "i", "l", "e">> \o sep_ \o Repeat("x", MAX_URL_LENGTH - 7 + k) :
        k \in 0..MaxOverlong}

\* urls of every shape around the pattern
Schemes == {http_, http_ \o <<"s">>, http_ \o <<"s", "s">>,
            <<"H", "T", "T", "P">>, <<"h", "t", "t", "p", "S">>,
            <<"h", "t", "t">>, <<"f", "t", "p">>, <<" ">> \o http_}
Separators == {sep_, <<":", "/">>}
Hosts == {<< >>, <<"a">>, <<"A", "1">>, <<"a", ".", "b">>,
          <<"a", "-", "b", ":", "8">>, <<"a", " ", "b">>, <<"a", "_", "b">>,
          <<"a", "?", "b">>, <<"a", "@", "b">>}
Paths == {<< >>, <<"/">>, <<"/", "p">>, <<"/", "p", "/", "q">>}

ShapeUrls ==
    {t[1] \o t[2] \o t[3] \o t[4] :
        t \in Schemes \X Separators \X Hosts \X Paths}

CountUrls == {UrlA, UrlB, UrlC, UrlBad}

SeqsUpTo(S, k) == UNION {[1..m -> S] : m \in 0..k}

ChartHistories ==
    SeqsUpTo(CountUrls, MaxHistory)
        \cup {<<u>> : u \in ShapeUrls \cup LongUrls}
        \cup {<<UrlA, u, UrlB>> : u \in LongUrls}

\* values self.top can hold: the default, a clamped request, a negative one
ChartTops == (1..MaxTopN) \cup {-1, DEFAULT_CHART, MAX_CHART}

InitCharts ==
    /\ pc = "charts_start"
    /\ history \in ChartHistories
    /\ top \in ChartTops
    /\ dbh = "None" /\ since = NoneStr /\ req_top = 0 /\ req_cli = FALSE
    /\ calls = 0 /\ copy_path = "not_run"
    /\ stripped_urls = << >> /\ skipped_urls = 0 /\ log = << >>
    /\ counted = << >> /\ charts = << >> /\ output = << >>
    /\ html = NoHtml /\ raised = "None"
    /\ CodecUnused
    /\ EnvUnused

\* History_Handler._charts_from_history(history)
CallChartsFromHistory ==
    /\ pc = "charts_start"
    /\ LET r == ChartsFromHistory(history, top)
       IN /\ stripped_urls' = r.stripped
          /\ skipped_urls' = r.skipped
          /\ log' = r.log
          /\ counted' = r.counted
          /\ charts' = r.charts
    /\ pc' = "charts_done"
    /\ UNCHANGED <<jinja2, dbExists, localExists, localMtime, now, copy_path,
                   store, dbh, since, top, req_top, req_cli, calls, history,
                   output, html, raised, date_string, webkit, decoded>>

NextCharts == CallChartsFromHistory

SpecCharts == InitCharts /\ [][NextCharts]_vars

----------------------------------------------------------------------------
(* Properties of _charts_from_history *)

Occurrences(seq, o) == Cardinality({i \in 1..Len(seq) : seq[i] = o})

FirstSeen(seq, o) ==
    CHOOSE i \in 1..Len(seq) : seq[i] = o /\ \A j \in 1..(i - 1) : seq[j] # o

DistinctOrigins(seq) == {seq[i] : i \in 1..Len(seq)}

\* p is ranked ahead of o: more visits, or as many and seen earlier
RanksAhead(seq, p, o) ==
    \/ Occurrences(seq, p) > Occurrences(seq, o)
    \/ /\ Occurrences(seq, p) = Occurrences(seq, o)
       /\ FirstSeen(seq, p) < FirstSeen(seq, o)

RankOf(seq, o) ==
    Cardinality({p \in DistinctOrigins(seq) : RanksAhead(seq, p, o)}) + 1

Min2(a, b) == IF a < b THEN a ELSE b

\* C2: for every sequence of origins and every effective top-N n >= 1 the
\* chart is the first n distinct origins in the order visit count descending,
\* equal counts ordered by first occurrence, each with its visit count.
RankingTieBreak ==
    (pc = "charts_done" /\ top >= 1) =>
        /\ Len(charts) = Min2(top, Cardinality(DistinctOrigins(stripped_urls)))
        /\ Len(counted) = Len(charts)
        /\ \A i \in 1..Len(charts) :
              \E o \in DistinctOrigins(stripped_urls) :
                 /\ RankOf(stripped_urls, o) = i
                 /\ counted[i] = <<o, Occurrences(stripped_urls, o)>>
                 /\ charts[i] = <<o, IntToStr(Occurrences(stripped_urls, o))>>

\* [Y, X, Y, X] with n = 2, written with the origins of UrlB and UrlA
RankingTieWitness ==
    /\ pc = "charts_done"
    /\ top = 2
    /\ stripped_urls = <<RegexSearch(UrlB), RegexSearch(UrlA),
                         RegexSearch(UrlB), RegexSearch(UrlA)>>
    /\ charts = << <<RegexSearch(UrlB), <<"2">> >>,
                   <<RegexSearch(UrlA), <<"2">> >> >>

\* the host alphabet the specification names: letters, digits, ".", "-", ":"
ClaimHostChar(c) == IsLetter(c) \/ IsDigit(c) \/ c \in {".", "-", ":"}

LowerSeq(s) == [i \in 1..Len(s) |-> Lower(s[i])]

\* the origin the specification assigns to url, NoneStr when it is skipped
ClaimOrigin(url) ==
    LET p == IF Len(url) >= 7 /\ LowerSeq(SubSeq(url, 1, 7)) = http_ \o sep_
             THEN 7
             ELSE IF Len(url) >= 8
                     /\ LowerSeq(SubSeq(url, 1, 8)) = http_ \o <<"s">> \o sep_
                  THEN 8
                  ELSE 0
        ends == {j \in (p + 1)..Len(url) :
                    /\ url[j] = "/"
                    /\ \A i \in (p + 1)..(j - 1) : ClaimHostChar(url[i])}
    IN IF p # 0 /\ ends # {}
       THEN SubSeq(url, 1, CHOOSE j \in ends : TRUE)
       ELSE NoneStr

ClaimOrigins(hist) ==
    SelectSeq([i \in 1..Len(hist) |-> ClaimOrigin(hist[i])],
              LAMBDA o : o # NoneStr)

\* C4: a url is normalised exactly when it starts with http:// or https://
\* followed by a host of letters, digits, dots, hyphens and colons ended by
\* a "/", and then to the prefix through that "/"; every other url is
\* skipped and adds nothing to the origin list.
NormalizationShape ==
    pc = "charts_done" => stripped_urls = ClaimOrigins(history)

Failed(hist) == {i \in 1..Len(hist) : RegexSearch(hist[i]) = NoneStr}

\* C8: every url is either counted as one origin occurrence or counted as
\* skipped; the reported skip count is the number of urls that failed
\* normalisation; chart counts reflect only urls that passed; truncating
\* a long url in the diagnostic changes neither.
SkipAccounting ==
    pc = "charts_done" =>
        /\ skipped_urls + Len(stripped_urls) = Len(history)
        /\ skipped_urls = Cardinality(Failed(history))
        /\ \A o \in DistinctOrigins(stripped_urls) :
              Occurrences(stripped_urls, o)
                 = Cardinality({i \in 1..Len(history) :
                                   RegexSearch(history[i]) = o})
        /\ \A k \in 1..Len(counted) :
              counted[k][2]
                 = Cardinality({i \in 1..Len(history) :
                                   RegexSearch(history[i]) = counted[k][1]})
        /\ Cardinality({k \in 1..Len(log) : log[k].msg = "Skipping"})
              = Cardinality(Failed(history))
        /\ \A k \in 1..Len(log) : Len(log[k].url) <= MAX_URL_LENGTH
        /\ skipped_urls # 0 =>
              /\ log[Len(log)].msg = "Skipped"
              /\ log[Len(log)].n = Cardinality(Failed(history))

\* two urls counted and one overlong url skipped with a truncated message
SkipAccountingWitness ==
    /\ pc = "charts_done"
    /\ Len(history) = 3
    /\ skipped_urls = 1
    /\ Len(stripped_urls) = 2
    /\ Len(history[2]) > MAX_URL_LENGTH
    /\ log[1].dots

----------------------------------------------------------------------------
(* chrome_charts.py: one run of the controller *)

\* most visits rows in the store
MaxVisits == 3
\* most create_charts calls inside the with block
MaxCalls == 2

RunUrls == {UrlA, UrlB, UrlC, UrlBad}

\* ages of the cached copy around the freshness window
AgeSamples == {0, 60 * 60 - 1, 60 * 60, 60 * 60 + 1}

\* values of --top: around zero, small, around MAX_CHART, the spec's 500
TopInputs == (-1..MaxTopN) \cup {MAX_CHART, MAX_CHART + 1, 5 * MAX_CHART}

Init ==
    /\ pc = "init"
    /\ jinja2 \in BOOLEAN
    /\ dbExists \in BOOLEAN
    /\ now = 2 * 60 * 60
    /\ \/ localExists = FALSE /\ localMtime = 0
       \/ localExists = TRUE /\ localMtime \in {now - a : a \in AgeSamples}
    /\ store \in SeqsUpTo(RunUrls, MaxVisits)
    /\ HandlerConstructed
    /\ CodecUnused

codecVars == <<date_string, webkit, decoded>>
fileVars == <<localExists, localMtime>>
envVars == <<jinja2, dbExists, now, store>>
chartVars == <<history, stripped_urls, skipped_urls, log, counted, charts>>
callVars == <<top, req_top, req_cli, calls, output, html>>

\* app.py:96-98: the canonical store is missing, FileNotFoundError
EnterMissing ==
    /\ pc = "init"
    /\ CopyBranch = "missing"
    /\ copy_path' = "missing"
    /\ raised' = "FileNotFoundError"
    /\ pc' = "crashed"
    /\ UNCHANGED <<fileVars, envVars, chartVars, callVars, codecVars, dbh, since>>

\* app.py:108-112: shutil.copy raises and the exception is re-raised
EnterCopyFails ==
    /\ pc = "init"
    /\ CopyBranch = "copy"
    /\ copy_path' = "copy_failed"
    /\ raised' = "CopyError"
    /\ pc' = "crashed"
    /\ UNCHANGED <<fileVars, envVars, chartVars, callVars, codecVars, dbh, since>>

\* the file state _copy_history_db leaves when it returns normally
Copied ==
    /\ CopyBranch \in {"reused", "copy"}
    /\ IF CopyBranch = "reused"
       THEN copy_path' = "reused" /\ UNCHANGED fileVars
       ELSE copy_path' = "copied" /\ localExists' = TRUE /\ localMtime' = now

\* app.py:79, 83-85: sqlite3.connect raises
EnterConnectFails ==
    /\ pc = "init"
    /\ Copied
    /\ raised' = "ConnectError"
    /\ pc' = "crashed"
    /\ UNCHANGED <<envVars, chartVars, callVars, codecVars, dbh, since>>

\* app.py:81, 83-85: the connection is open and _get_history_age raises,
\* IndexError on a store without visits, or the query itself fails; the
\* with statement does not call __exit__ when __enter__ raises
EnterAgeFails ==
    /\ pc = "init"
    /\ Copied
    /\ dbh' = "open"
    /\ \/ store = << >> /\ raised' = "IndexError"
       \/ raised' = "DatabaseError"
    /\ pc' = "crashed"
    /\ UNCHANGED <<envVars, chartVars, callVars, codecVars, since>>

\* app.py:73-82: __enter__ returns self
EnterOk ==
    /\ pc = "init"
    /\ Copied
    /\ store # << >>
    /\ dbh' = "open"
    /\ since' = HistoryAge(store)
    /\ raised' = "None"
    /\ pc' = "entered"
    /\ UNCHANGED <<envVars, chartVars, callVars, codecVars>>

CanCall == pc = "entered" /\ calls < MaxCalls

\* what every create_charts call does before _get_history (app.py:200-205)
CallStarts(arg, cli) ==
    /\ CanCall
    /\ top' = ClampTop(arg, top)
    /\ req_top' = arg
    /\ req_cli' = EffectiveCli(cli)
    /\ calls' = calls + 1

\* app.py:208 -> 144: strptime rejects self.since, ValueError
CreateChartsBadSince ==
    \E arg \in TopInputs, cli \in BOOLEAN :
        /\ CallStarts(arg, cli)
        /\ ~IsYmd(since)
        /\ output' = << >>
        /\ raised' = "ValueError_strptime"
        /\ pc' = "raising"
        /\ UNCHANGED <<fileVars, envVars, chartVars, codecVars, copy_path,
                       dbh, since, html>>

\* app.py:208 -> 116: the history query fails
CreateChartsQueryFails ==
    \E arg \in TopInputs, cli \in BOOLEAN :
        /\ CallStarts(arg, cli)
        /\ IsYmd(since)
        /\ output' = << >>
        /\ raised' = "DatabaseError"
        /\ pc' = "raising"
        /\ UNCHANGED <<fileVars, envVars, chartVars, codecVars, copy_path,
                       dbh, since, html>>

\* app.py:208-212: history, chart and the reformatted cutoff
ChartsBuilt ==
    /\ IsYmd(since)
    /\ history' = GetHistory(store, date_to_webkit(since))
    /\ LET r == ChartsFromHistory(history', top')
       IN /\ stripped_urls' = r.stripped
          /\ skipped_urls' = r.skipped
          /\ log' = r.log
          /\ counted' = r.counted
          /\ charts' = r.charts
    /\ since' = StrfDisplay(StrpYmd(since))

\* app.py:219: max() of an empty list, ValueError
CreateChartsCliEmpty ==
    \E arg \in TopInputs, cli \in BOOLEAN :
        /\ CallStarts(arg, cli)
        /\ ChartsBuilt
        /\ EffectiveCli(cli)
        /\ charts' = << >>
        /\ output' = << >>
        /\ raised' = "ValueError_max"
        /\ pc' = "raising"
        /\ UNCHANGED <<fileVars, envVars, codecVars, copy_path, dbh, html>>

\* app.py:217-238: the table is printed
CreateChartsCli ==
    \E arg \in TopInputs, cli \in BOOLEAN :
        /\ CallStarts(arg, cli)
        /\ ChartsBuilt
        /\ EffectiveCli(cli)
        /\ charts' # << >>
        /\ output' = CliLines(charts', top', since')
        /\ raised' = "None"
        /\ pc' = "entered"
        /\ UNCHANGED <<fileVars, envVars, codecVars, copy_path, dbh, html>>

\* app.py:216 -> 31-33: the template cannot be loaded, the exception leaves
\* Html_Handler.__init__ uncaught
CreateChartsTemplateFails ==
    \E arg \in TopInputs, cli \in BOOLEAN :
        /\ CallStarts(arg, cli)
        /\ ChartsBuilt
        /\ ~EffectiveCli(cli)
        /\ output' = << >>
        /\ raised' = "TemplateNotFound"
        /\ pc' = "raising"
        /\ UNCHANGED <<fileVars, envVars, codecVars, copy_path, dbh, html>>

\* app.py:216 -> 35-54: write_html; a failure of the write or of the browser
\* is logged and swallowed
CreateChartsHtml ==
    \E arg \in TopInputs, cli \in BOOLEAN, written \in BOOLEAN :
        /\ CallStarts(arg, cli)
        /\ ChartsBuilt
        /\ ~EffectiveCli(cli)
        /\ html' = IF written
                   THEN [written |-> TRUE, charts |-> charts',
                         top |-> Len(charts'), since |-> since']
                   ELSE html
        /\ output' = << >>
        /\ raised' = "None"
        /\ pc' = "entered"
        /\ UNCHANGED <<fileVars, envVars, codecVars, copy_path, dbh>>

\* app.py:87-90: __exit__ closes the connection; it returns None, so an
\* exception raised in the with block goes on to end the script
Exit ==
    /\ pc \in {"entered", "raising"}
    /\ dbh' = "closed"
    /\ pc' = IF pc = "raising" THEN "crashed" ELSE "exited"
    /\ UNCHANGED <<fileVars, envVars, chartVars, callVars, codecVars,
                   copy_path, since, raised>>

Next ==
    \/ EnterMissing
    \/ EnterCopyFails
    \/ EnterConnectFails
    \/ EnterAgeFails
    \/ EnterOk
    \/ CreateChartsBadSince
    \/ CreateChartsQueryFails
    \/ CreateChartsCliEmpty
    \/ CreateChartsCli
    \/ CreateChartsTemplateFails
    \/ CreateChartsHtml
    \/ Exit

Spec == Init /\ [][Next]_vars

----------------------------------------------------------------------------
(* Properties of a run *)

\* the last create_charts call got a history and built a chart from it
ChartBuilt ==
    calls >= 1 /\ raised \notin {"ValueError_strptime", "DatabaseError"}

\* the last create_charts call printed its table and returned
Printed == calls >= 1 /\ raised = "None" /\ req_cli

\* C3: for every requested top, 0 included, the chart has at most
\* min(requested top, MAX_CHART, number of distinct origins) entries.
ChartLengthBound ==
    (ChartBuilt /\ req_top >= 0) =>
        Len(charts) <= Min2(Min2(req_top, MAX_CHART),
                            Cardinality(DistinctOrigins(stripped_urls)))

\* C5: a connection that was opened is closed on every exit path of the
\* run; no terminal state has it open.
ConnectionReleased == pc \in {"exited", "crashed"} => dbh # "open"

\* the step that runs __enter__
EnterStep == pc = "init" /\ pc' # "init"

\* what _copy_history_db does when the cached copy is reused exactly when
\* fresh holds of it
CacheProtocol(fresh) ==
    IF ~dbExists
    THEN /\ copy_path' = "missing"
         /\ raised' = "FileNotFoundError"
         /\ pc' = "crashed"
         /\ UNCHANGED fileVars
    ELSE IF localExists /\ fresh
         THEN copy_path' = "reused" /\ UNCHANGED fileVars
         ELSE \/ /\ copy_path' = "copied"
                 /\ localExists' = TRUE
                 /\ localMtime' = now
              \/ /\ copy_path' = "copy_failed"
                 /\ raised' = "CopyError"
                 /\ pc' = "crashed"

\* C6 as stated: a missing canonical store fails without a copy; otherwise
\* the cached copy is reused exactly when it exists and its age is less
\* than one hour, and in every other case the store is copied over it; a
\* failing copy propagates.
CacheFreshUnderOneHour ==
    [][EnterStep => CacheProtocol(now - localMtime < 60 * 60)]_vars

\* C6 as amended: the cached copy is reused exactly when it exists and its
\* age is at most one hour.
CacheFreshUpToOneHour ==
    [][EnterStep => CacheProtocol(now - localMtime <= 60 * 60)]_vars

\* a copy exactly one hour old was reused
CacheBoundaryWitness ==
    /\ copy_path = "reused"
    /\ localExists
    /\ now - localMtime = 60 * 60

\* C7: a request above MAX_CHART raises no error of its own, selects with
\* MAX_CHART and reports MAX_CHART in the CLI header; a request in
\* 1..MAX_CHART is used and reported as it is.
TopClamping ==
    calls >= 1 =>
        /\ req_top > MAX_CHART => top = MAX_CHART
        /\ req_top \in 1..MAX_CHART => top = req_top
        /\ (ChartBuilt /\ req_top >= 1) =>
              Len(counted) = Min2(Min2(req_top, MAX_CHART),
                                  Cardinality(DistinctOrigins(stripped_urls)))
        /\ (Printed /\ req_top >= 1) =>
              /\ output[2].kind = "header"
              /\ output[2].top = Min2(req_top, MAX_CHART)
        /\ (req_top > MAX_CHART /\ raised # "None") =>
              \/ raised \in {"ValueError_strptime", "DatabaseError"}
              \/ raised = "ValueError_max" /\ req_cli /\ charts = << >>
              \/ raised = "TemplateNotFound" /\ ~req_cli

\* top=500 was requested and the header printed reports 100
TopClampingWitness ==
    /\ Printed
    /\ req_top = 5 * MAX_CHART
    /\ top = MAX_CHART
    /\ output[2].top = MAX_CHART
    /\ Len(charts) >= 2

\* C9: whatever number of urls fail normalisation, all of them included,
\* create_charts in CLI mode returns without raising, having printed the
\* header line and one row per chart entry with ranks from 1.
CliRecoverable ==
    (ChartBuilt /\ req_cli /\ req_top >= 1) =>
        /\ raised = "None"
        /\ Len(output) >= Len(charts) + 3
        /\ output[2].kind = "header"
        /\ \A i \in 1..Len(charts) :
              /\ output[3 + i].kind = "row"
              /\ output[3 + i].rank = ZeroPadLeft(i, 2)
              /\ output[3 + i].text = charts[i][1]
        /\ Cardinality({k \in 1..Len(output) : output[k].kind = "row"})
              = Len(charts)

\* C10: after any number of create_charts calls self.since is still a
\* 'YYYY-MM-DD' date that date_to_webkit can encode, so the call can be
\* repeated.
SinceStaysEncodable ==
    (pc = "entered" /\ calls >= 1) => IsYmd(since)

====
